---- MODULE Spec2Model ----
(***************************************************************************)
(* Model of the Lornexa profile service (src/main.py): one table           *)
(* "profiles" and the five request handlers create_profile, get_profile,   *)
(* get_all_profiles, update_profile and delete_profile.                    *)
(*                                                                         *)
(* A handler is a sequence of steps, one per statement it sends to the     *)
(* database (the SELECT of a query, the flush+COMMIT of db.commit(), the   *)
(* SELECT of db.refresh()).  Requests of different clients interleave      *)
(* between these steps, as the worker threads of the host do.  Each        *)
(* statement reads and writes the committed table: the                     *)
(* default engine (SQLite through pysqlite) and PostgreSQL at READ         *)
(* COMMITTED both behave so for the single statements issued here.         *)
(***************************************************************************)
EXTENDS Integers, FiniteSets, Sequences, TLC

\* ---------------------------------------------------------------- bounds
\* The store assigns ids up to MaxId; path ids range over 1..MaxId.
MaxId == 2

\* Concurrent requests in flight (worker threads), and the single client of
\* the sequential specification.
Clients == {"c1", "c2"}
SeqClients == {"c1"}

\* ------------------------------------------------------------ data model
\* Python's None / SQL NULL.
Null == "null"

\* The eight columns besides id (ProfileCreate, lines 45-53).
Fields ==
  {"first_name", "last_name", "gender", "country", "ethnicity",
   "marital_status", "date_of_birth", "autistic"}

\* JSON request bodies: objects giving first_name and some optional fields.
Bodies ==
  { [first_name |-> "Ana"],
    [first_name |-> "Ana", country |-> "PT"],
    [first_name |-> "Bo", last_name |-> "Li", gender |-> "f",
     ethnicity |-> "e", marital_status |-> "single",
     date_of_birth |-> "01/02/2000", autistic |-> "no"] }

\* ProfileCreate(**body): every optional field absent from the body
\* defaults to None.
ProfileCreate(body) ==
  [f \in Fields |-> IF f \in DOMAIN body THEN body[f] ELSE Null]

Shapes == {ProfileCreate(b) : b \in Bodies}

\* A value that is no valid ProfileCreate (first_name is required): the
\* `profile` slot of requests that carry no body.
NoShape == [f \in Fields |-> Null]

\* Profile(...) built without passing country on.
ProfileWithoutCountry(profile) ==
  [f \in Fields |-> IF f = "country" THEN Null ELSE profile[f]]

\* Profile(first_name=..., ...): a transient instance, primary key unset.
Profile(profile) == [f \in Fields |-> profile[f]]

\* A persistent row / instance: the eight columns plus id.
Row(id, obj) ==
  [k \in Fields \cup {"id"} |-> IF k = "id" THEN id ELSE obj[k]]

\* ProfileResponse (from_attributes): id and the eight fields, verbatim.
ProfileResponse(row) ==
  [k \in Fields \cup {"id"} |-> row[k]]

ProfileIds == 1..MaxId

\* ------------------------------------------------------------- the store
Ids(tbl) == {r.id : r \in tbl}

SetMax(S) == CHOOSE m \in S : \A x \in S : x <= m

\* The highest key again, not the one after it.
NextIdStale(tbl) == IF tbl = {} THEN 1 ELSE SetMax(Ids(tbl))

\* id = Column(Integer, primary_key=True): the engine assigns the key on
\* INSERT; SQLite's rowid is max(id)+1, or 1 for an empty table.
NextId(tbl) == IF tbl = {} THEN 1 ELSE SetMax(Ids(tbl)) + 1

\* db.query(Profile).filter(Profile.id == profile_id).first(): the matching
\* rows (none, or one): `not profile` is Query(..) = {}.
Query(tbl, profile_id) == {r \in tbl : r.id = profile_id}

\* .first() in place of .all(): at most one row.
QueryAllFirst(tbl) == IF tbl = {} THEN {} ELSE {CHOOSE r \in tbl : TRUE}

\* db.query(Profile).all()
QueryAll(tbl) == tbl

\* db.add + flush: INSERT of every column, the key assigned by the store.
Insert(tbl, obj) == tbl \cup {Row(NextId(tbl), obj)}

\* The loop over profile.dict(exclude_none=True): a partial (PATCH) update.
SetAttrsPatch(row, profile) ==
  [k \in DOMAIN row |->
     IF k \in Fields /\ profile[k] # Null THEN profile[k] ELSE row[k]]

\* for key, value in profile.dict().items(): setattr(db_profile, key, value)
\* profile.dict() has the eight fields and no id.
SetAttrs(row, profile) ==
  [k \in DOMAIN row |-> IF k \in Fields THEN profile[k] ELSE row[k]]

\* The unit of work's attribute history: the columns whose value differs
\* from the value the instance was loaded with.  The flush of db.commit()
\* writes these columns only.
Dirty(obj, orig) == {f \in Fields : obj[f] # orig[f]}

\* UPDATE profiles SET <cols>, the WHERE clause lost.
UpdateEveryRow(tbl, id, obj, cols) ==
  {[k \in DOMAIN r |-> IF k \in cols THEN obj[k] ELSE r[k]] : r \in tbl}

\* UPDATE profiles SET <cols> WHERE id = :id
Update(tbl, id, obj, cols) ==
  { IF r.id = id
      THEN [k \in DOMAIN r |-> IF k \in cols THEN obj[k] ELSE r[k]]
      ELSE r
    : r \in tbl }

\* DELETE FROM profiles WHERE id = :id
Delete(tbl, id) == {r \in tbl : r.id # id}

\* db.commit(): the flushed statements become the committed table.
Commit(before, flushed) == flushed

\* No rollback: what was flushed stays.
RollbackLost(before, flushed) == flushed

\* db.rollback(): the flushed statements of the transaction are discarded.
Rollback(before, flushed) == before

\* ------------------------------------------------------------- responses
HTTPException(status_code, detail) ==
  [kind |-> "HTTPException", status_code |-> status_code, detail |-> detail]

\* An error raised by the engine or the ORM while writing.
DbError(text) == [kind |-> "DbError", status_code |-> 0, detail |-> text]

NotFound == HTTPException(404, "Profile not found")

\* str(e): starlette prints an HTTPException as "<status>: <detail>".
Str(e) ==
  IF e.kind = "HTTPException"
    THEN ToString(e.status_code) \o ": " \o e.detail
    ELSE e.detail

\* except Exception as e: ... raise HTTPException(status_code=500, detail=str(e))
\* HTTPException is itself an Exception, so the clause catches it too.
ExceptClause(e) == HTTPException(500, Str(e))

\* The response FastAPI sends for a raised HTTPException.
ErrorResponse(h) == [status |-> h.status_code, detail |-> h.detail, rows |-> {}]

\* The response for a returned instance (response_model=ProfileResponse).
RowResponse(row) == [status |-> 200, detail |-> "", rows |-> {ProfileResponse(row)}]

\* response_model=list[ProfileResponse]; the order is the store's.
ListResponse(rows) ==
  [status |-> 200, detail |-> "", rows |-> {ProfileResponse(r) : r \in rows}]

\* {"message": "Profile deleted successfully"}
DeletedResponse == [status |-> 200, detail |-> "Profile deleted successfully", rows |-> {}]

NoResp == [status |-> 0, detail |-> "", rows |-> {}]
\* The `body` slot of requests that carry no body.
NoBody == [none |-> Null]

NoReq == [op |-> "none", profile_id |-> 0, body |-> NoBody, profile |-> NoShape]

\* db.close() never reached.
db_close_skipped(n) == n

\* SessionLocal() and db.close(), as counts of the request's open sessions.
SessionLocal(n) == n + 1
db_close(n) == n - 1

\* ----------------------------------------------------------------- state
VARIABLES
  store,       \* the committed rows of table "profiles"
  pc,          \* per client: the handler step its request is at
  req,         \* per client: the request (handler, path id, parsed body)
  loaded,      \* per client: the row as the session loaded it (or none)
  db_profile,  \* per client: the instance the handler holds (or none)
  resp,        \* per client: the response of the finished request
  session,     \* per client: sessions currently open
  opens,       \* per client: SessionLocal() calls of the current request
  pre,         \* history: the table when the current request began
  last,        \* history: the request that returned last, with its response
  created,     \* history: rows as created, of creates not deleted since
  updated,     \* history: ids updated since their creation
  observed     \* whether the run is a sequential one, recorded by its client

hvars == <<pre, last, created, updated>>
vars == <<store, pc, req, loaded, db_profile, resp, session, opens,
          pre, last, created, updated, observed>>

TheOne(S) == CHOOSE x \in S : TRUE

NoLast == [op |-> "none", profile_id |-> 0, body |-> NoBody,
           status |-> 0, rows |-> {}]

\* The state once the module is imported: Base.metadata.create_all made the
\* table (empty for a fresh database file), no request is in flight.
Init ==
  /\ store = {}
  /\ pc = [c \in Clients |-> "idle"]
  /\ req = [c \in Clients |-> NoReq]
  /\ loaded = [c \in Clients |-> {}]
  /\ db_profile = [c \in Clients |-> {}]
  /\ resp = [c \in Clients |-> NoResp]
  /\ session = [c \in Clients |-> 0]
  /\ opens = [c \in Clients |-> 0]
  /\ pre = {}
  /\ last = NoLast
  /\ created = {}
  /\ updated = {}
  /\ observed = FALSE

\* The same, for a sequential run: one client, who records what it sees.
SeqInit ==
  /\ store = {}
  /\ pc = [c \in Clients |-> "idle"]
  /\ req = [c \in Clients |-> NoReq]
  /\ loaded = [c \in Clients |-> {}]
  /\ db_profile = [c \in Clients |-> {}]
  /\ resp = [c \in Clients |-> NoResp]
  /\ session = [c \in Clients |-> 0]
  /\ opens = [c \in Clients |-> 0]
  /\ pre = {}
  /\ last = NoLast
  /\ created = {}
  /\ updated = {}
  /\ observed = TRUE

\* Sending a response touches nothing shared, so it is taken before any
\* other step: no statement of another request falls between a handler's
\* last statement and its response.
ResponsePending == \E d \in Clients : pc[d] = "done"

\* Client c may take a handler step: no response is waiting to be sent, and
\* in a sequential run c is the one client.
Scheduled(c) == ~ResponsePending /\ (observed => c \in SeqClients)

CreateCommitted(c) == pc[c] = "idle" /\ pc'[c] = "create_refresh"
UpdateCommitted(c) == pc[c] = "update_commit" /\ pc'[c] = "update_refresh"
DeleteCommitted(c) ==
  pc[c] = "delete_commit" /\ pc'[c] = "done" /\ resp'[c].status = 200

\* What the client of a sequential run records of the step it takes: the
\* table when its request begins, the request that returned last, and the
\* rows created (as their create request gave them), deleted and updated so
\* far.  Requests that interleave are not recorded.
Observe(c) ==
  /\ UNCHANGED observed
  /\ IF observed
       THEN /\ pre' = IF pc[c] = "idle" THEN store ELSE pre
            /\ last' = IF pc[c] = "done"
                         THEN [op |-> req[c].op, profile_id |-> req[c].profile_id,
                               body |-> req[c].body, status |-> resp[c].status,
                               rows |-> resp[c].rows]
                         ELSE last
            /\ created' =
                 IF CreateCommitted(c)
                   THEN LET id == TheOne(db_profile'[c]).id
                        IN {r \in created : r.id # id}
                             \cup {Row(id, req'[c].profile)}
                 ELSE IF DeleteCommitted(c)
                   THEN {r \in created : r.id # req[c].profile_id}
                 ELSE created
            /\ updated' =
                 IF CreateCommitted(c)
                   THEN updated \ {TheOne(db_profile'[c]).id}
                 ELSE IF DeleteCommitted(c)
                   THEN updated \ {req[c].profile_id}
                 ELSE IF UpdateCommitted(c)
                   THEN updated \cup {req[c].profile_id}
                 ELSE updated
       ELSE UNCHANGED hvars

\* db = SessionLocal(), the first statement of every handler.  Opening the
\* session touches nothing shared, so it is one step with the handler's
\* first statement on the database.
Begin(c, r) ==
  /\ Scheduled(c)
  /\ pc[c] = "idle"
  /\ req' = [req EXCEPT ![c] = r]
  /\ opens' = [opens EXCEPT ![c] = opens[c] + 1]

\* The handler goes on, its session open, to its next database statement.
Continue(c, next, orig, obj) ==
  /\ pc' = [pc EXCEPT ![c] = next]
  /\ loaded' = [loaded EXCEPT ![c] = orig]
  /\ db_profile' = [db_profile EXCEPT ![c] = obj]
  /\ UNCHANGED resp

\* The handler leaves (return or raise) through `finally: db.close()`;
\* n is the number of sessions it holds open.
Finish(c, n, r) ==
  /\ resp' = [resp EXCEPT ![c] = r]
  /\ session' = [session EXCEPT ![c] = db_close(n)]
  /\ loaded' = [loaded EXCEPT ![c] = {}]
  /\ db_profile' = [db_profile EXCEPT ![c] = {}]
  /\ pc' = [pc EXCEPT ![c] = "done"]

\* The response has been sent; the client may issue its next request.
Return(c) ==
  /\ pc[c] = "done"
  /\ pc' = [pc EXCEPT ![c] = "idle"]
  /\ req' = [req EXCEPT ![c] = NoReq]
  /\ resp' = [resp EXCEPT ![c] = NoResp]
  /\ opens' = [opens EXCEPT ![c] = 0]
  /\ UNCHANGED <<store, loaded, db_profile, session>>
  /\ Observe(c)

\* After db.commit() the instance is expired: it keeps its key only.
Expired(id) == [id |-> id]

\* --------------------------------------------------------- create_profile
\* The highest key stored (0 for an empty table).
MaxStoredId == IF store = {} THEN 0 ELSE SetMax(Ids(store))

\* db = SessionLocal(); db_profile = Profile(...); db.add(db_profile);
\* db.commit(): INSERT and COMMIT, or a persistence error, caught by the
\* except clause (rollback, 500).  Taken while the next key is within MaxId.
create_profile(c, body) ==
  /\ MaxStoredId < MaxId
  /\ Begin(c, [op |-> "create", profile_id |-> 0, body |-> body,
               profile |-> ProfileCreate(body)])
  /\ LET db_profile_ == Profile(ProfileCreate(body))
         flushed == Insert(store, db_profile_)
     IN \/ /\ store' = Commit(store, flushed)
           /\ session' = [session EXCEPT ![c] = SessionLocal(session[c])]
           /\ Continue(c, "create_refresh", {}, {Expired(NextId(store))})
        \/ /\ store' = Rollback(store, flushed)
           /\ Finish(c, SessionLocal(session[c]),
                     ErrorResponse(ExceptClause(DbError("database error"))))
  /\ Observe(c)

\* db.refresh(db_profile); return db_profile.  The refresh SELECTs the row
\* by its key and raises when the row is gone.
create_refresh(c) ==
  /\ Scheduled(c)
  /\ pc[c] = "create_refresh"
  /\ LET found == Query(store, TheOne(db_profile[c]).id)
     IN IF found = {}
          THEN Finish(c, session[c],
                      ErrorResponse(ExceptClause(DbError("could not refresh instance"))))
          ELSE Finish(c, session[c], RowResponse(TheOne(found)))
  /\ UNCHANGED <<store, req, opens>>
  /\ Observe(c)

\* ------------------------------------------------------------ get_profile
\* The whole handler: the query; no row raises the 404 (this handler has no
\* except clause).
get_profile(c, profile_id) ==
  /\ Begin(c, [op |-> "get", profile_id |-> profile_id, body |-> NoBody,
               profile |-> NoShape])
  /\ LET profile == Query(store, profile_id)
     IN IF profile = {}
          THEN Finish(c, SessionLocal(session[c]), ErrorResponse(NotFound))
          ELSE Finish(c, SessionLocal(session[c]), RowResponse(TheOne(profile)))
  /\ UNCHANGED store
  /\ Observe(c)

\* ------------------------------------------------------- get_all_profiles
get_all_profiles(c) ==
  /\ Begin(c, [op |-> "get_all", profile_id |-> 0, body |-> NoBody,
               profile |-> NoShape])
  /\ Finish(c, SessionLocal(session[c]), ListResponse(QueryAll(store)))
  /\ UNCHANGED store
  /\ Observe(c)

\* --------------------------------------------------------- update_profile
\* The query, the 404 raised inside the try (and so caught by the except
\* clause of the same try), and the setattr loop on the loaded instance.
update_profile(c, profile_id, body) ==
  /\ Begin(c, [op |-> "update", profile_id |-> profile_id, body |-> body,
               profile |-> ProfileCreate(body)])
  /\ LET found == Query(store, profile_id)
     IN IF found = {}
          THEN Finish(c, SessionLocal(session[c]),
                      ErrorResponse(ExceptClause(NotFound)))
          ELSE /\ session' = [session EXCEPT ![c] = SessionLocal(session[c])]
               /\ Continue(c, "update_commit", found,
                           {SetAttrs(TheOne(found), ProfileCreate(body))})
  /\ UNCHANGED store
  /\ Observe(c)

\* db.commit(): the flush UPDATEs the dirty columns of the row (no statement
\* when none is dirty; an UPDATE that matches no row raises), then COMMIT;
\* or a persistence error.  Either error reaches the except clause.
update_commit(c) ==
  /\ Scheduled(c)
  /\ pc[c] = "update_commit"
  /\ LET obj == TheOne(db_profile[c])
         cols == Dirty(obj, TheOne(loaded[c]))
         flushed == IF cols = {} THEN store ELSE Update(store, obj.id, obj, cols)
     IN \/ IF cols # {} /\ Query(store, obj.id) = {}
             THEN /\ store' = Rollback(store, flushed)
                  /\ Finish(c, session[c],
                            ErrorResponse(ExceptClause(DbError("stale data"))))
             ELSE /\ store' = Commit(store, flushed)
                  /\ Continue(c, "update_refresh", {}, {Expired(obj.id)})
                  /\ UNCHANGED session
        \/ /\ store' = Rollback(store, flushed)
           /\ Finish(c, session[c],
                     ErrorResponse(ExceptClause(DbError("database error"))))
  /\ UNCHANGED <<req, opens>>
  /\ Observe(c)

\* db.refresh(db_profile); return db_profile
update_refresh(c) ==
  /\ Scheduled(c)
  /\ pc[c] = "update_refresh"
  /\ LET found == Query(store, TheOne(db_profile[c]).id)
     IN IF found = {}
          THEN Finish(c, session[c],
                      ErrorResponse(ExceptClause(DbError("could not refresh instance"))))
          ELSE Finish(c, session[c], RowResponse(TheOne(found)))
  /\ UNCHANGED <<store, req, opens>>
  /\ Observe(c)

\* --------------------------------------------------------- delete_profile
\* The query, the 404 raised inside the try (caught by the except clause),
\* and db.delete(profile).
delete_profile(c, profile_id) ==
  /\ Begin(c, [op |-> "delete", profile_id |-> profile_id, body |-> NoBody,
               profile |-> NoShape])
  /\ LET profile == Query(store, profile_id)
     IN IF profile = {}
          THEN Finish(c, SessionLocal(session[c]),
                      ErrorResponse(ExceptClause(NotFound)))
          ELSE /\ session' = [session EXCEPT ![c] = SessionLocal(session[c])]
               /\ Continue(c, "delete_commit", {}, {Expired(profile_id)})
  /\ UNCHANGED store
  /\ Observe(c)

\* db.commit(): DELETE by key (a DELETE that matches no row only warns) and
\* COMMIT, or a persistence error.
delete_commit(c) ==
  /\ Scheduled(c)
  /\ pc[c] = "delete_commit"
  /\ LET flushed == Delete(store, TheOne(db_profile[c]).id)
     IN \/ /\ store' = Commit(store, flushed)
           /\ Finish(c, session[c], DeletedResponse)
        \/ /\ store' = Rollback(store, flushed)
           /\ Finish(c, session[c],
                     ErrorResponse(ExceptClause(DbError("database error"))))
  /\ UNCHANGED <<req, opens>>
  /\ Observe(c)

\* ------------------------------------------------------------------ steps
Next ==
  \E c \in Clients :
    \/ \E body \in Bodies : create_profile(c, body)
    \/ create_refresh(c)
    \/ \E profile_id \in ProfileIds : get_profile(c, profile_id)
    \/ get_all_profiles(c)
    \/ \E profile_id \in ProfileIds, body \in Bodies :
         update_profile(c, profile_id, body)
    \/ update_commit(c)
    \/ update_refresh(c)
    \/ \E profile_id \in ProfileIds : delete_profile(c, profile_id)
    \/ delete_commit(c)
    \/ Return(c)

\* Requests of all clients, interleaved.
Spec == Init /\ [][Next]_vars

\* One client, one request at a time, each recorded.
SeqSpec == SeqInit /\ [][Next]_vars

\* ================================================================ claims
Done(c, op) == pc[c] = "done" /\ req[c].op = op

\* The client taking the step, if any.
Stepped(c) == pc'[c] # pc[c]

\* The row a request body stands for: the body's fields, null for the
\* fields it omits, under the given id.
Expected(id, body) ==
  [k \in Fields \cup {"id"} |->
     IF k = "id" THEN id ELSE IF k \in DOMAIN body THEN body[k] ELSE Null]

\* C1: update_profile on an id with no stored row answers 404 with the
\* message "Profile not found" (not 500) and leaves the store unchanged.
C1_UpdateMissingAnswers404 ==
  \A c \in Clients :
    Done(c, "update") /\ Query(pre, req[c].profile_id) = {}
      => /\ resp[c].status = 404
         /\ resp[c].detail = "Profile not found"
         /\ store = pre

\* C2: after a successful delete_profile(id) a following get_profile(id)
\* answers 404; delete_profile on an id with no stored row answers 404 (not
\* 500) and leaves the store unchanged.
C2_DeleteThenNotFound ==
  \A c \in Clients :
    /\ Done(c, "get") /\ last.op = "delete" /\ last.status = 200
         /\ last.profile_id = req[c].profile_id
         => resp[c].status = 404
    /\ Done(c, "delete") /\ Query(pre, req[c].profile_id) = {}
         => resp[c].status = 404 /\ store = pre

\* C9: when update_profile requests for the same id interleave, the row
\* stored by a successful commit is exactly the full shape of the request
\* that commits it (the last writer), never a mixture with another request.
C9_LastWriterWinsWholeRow ==
  [][\A c, d \in Clients :
       /\ c # d
       /\ req[c].op = "update" /\ req[d].op = "update"
       /\ req[c].profile_id = req[d].profile_id
       /\ UpdateCommitted(c)
       => Query(store', req[c].profile_id)
            = {Expected(req[c].profile_id, req[c].body)}]_vars

\* C3: in a sequential run, get_profile(id) right after a successful
\* update_profile(id, body) returns id with exactly the body's fields, and
\* null for every field the body omits.
C3_UpdateThenGetIsFullReplace ==
  \A c \in Clients :
    Done(c, "get") /\ last.op = "update" /\ last.status = 200
      /\ last.profile_id = req[c].profile_id
      => /\ resp[c].status = 200
         /\ resp[c].rows = {Expected(req[c].profile_id, last.body)}
         /\ last.rows = resp[c].rows

\* C3 witness: such a get has returned, and the update omitted last_name,
\* which the row had when it was created.
C3_Witness ==
  \E c \in Clients :
    /\ Done(c, "get") /\ last.op = "update" /\ last.status = 200
    /\ last.profile_id = req[c].profile_id
    /\ "last_name" \notin DOMAIN last.body
    /\ \E r \in created : r.id = req[c].profile_id /\ r.last_name # Null

\* C4: in a sequential run, a successful create_profile returns one row
\* whose id is new to the store and whose fields are the body's (null where
\* omitted), and get_profile of that id right after returns the same row.
C4_CreateThenGet ==
  \A c \in Clients :
    /\ Done(c, "create") /\ resp[c].status = 200
         => \E id \in ProfileIds :
              /\ id \notin Ids(pre)
              /\ resp[c].rows = {Expected(id, req[c].body)}
    /\ Done(c, "get") /\ last.op = "create" /\ last.status = 200
         /\ req[c].profile_id \in Ids(last.rows)
         => resp[c].status = 200 /\ resp[c].rows = last.rows

\* C4 witness: a get of the row just created, whose body gave country, has
\* returned.
C4_Witness ==
  \E c \in Clients :
    /\ Done(c, "get") /\ last.op = "create" /\ last.status = 200
    /\ req[c].profile_id \in Ids(last.rows)
    /\ "country" \in DOMAIN last.body

\* C5: no two stored rows share an id; a create adds one row under an id
\* the store did not hold; no step but a delete removes an id and no step
\* but a create adds one (update_profile keeps the id of its row).
C5_IdUniqueAndImmutable ==
  /\ [](\A r1, r2 \in store : r1.id = r2.id => r1 = r2)
  /\ [][\A c \in Clients : Stepped(c) =>
          /\ CreateCommitted(c)
               => /\ Cardinality(Ids(store')) = Cardinality(Ids(store)) + 1
                  /\ Ids(store) \subseteq Ids(store')
          /\ ~CreateCommitted(c) => Ids(store') \subseteq Ids(store)
          /\ ~DeleteCommitted(c) => Ids(store) \subseteq Ids(store')]_vars

\* C5 witness: an update of one of two stored rows has committed.
C5_Witness ==
  \E c \in Clients :
    /\ pc[c] = "update_refresh"
    /\ Query(store, req[c].profile_id) = {Row(req[c].profile_id, req[c].profile)}
    /\ Cardinality(store) >= 2

\* C6: in a sequential run get_all_profiles returns exactly the rows
\* created and not deleted since, one entry each, and every entry not
\* updated since equals its create payload plus its id.
C6_GetAllIsCreatedMinusDeleted ==
  \A c \in Clients :
    Done(c, "get_all")
      => /\ resp[c].status = 200
         /\ Ids(resp[c].rows) = Ids(created)
         /\ Cardinality(resp[c].rows) = Cardinality(created)
         /\ \A r \in resp[c].rows : r.id \notin updated => r \in created

\* C6 witness: get_all_profiles has returned after two creates with no
\* update.
C6_Witness ==
  \E c \in Clients :
    /\ Done(c, "get_all")
    /\ Cardinality(created) >= 2
    /\ updated = {}

\* Client c's step is a db.commit() that raised.
CommitFailed(c) ==
  /\ pc'[c] = "done" /\ resp'[c].status # 200
  /\ \/ pc[c] = "idle" /\ req'[c].op = "create"
     \/ pc[c] \in {"update_commit", "delete_commit"}

\* C7: a write handler whose commit raises ends with status 500 carrying
\* the error text, and its step leaves the stored rows as they were.
C7_FailedCommitRollsBack ==
  [][\A c \in Clients :
       CommitFailed(c)
         => /\ resp'[c].status = 500
            /\ resp'[c].detail \in {"database error", "stale data"}
            /\ store' = store]_vars

\* C7 witness: an update of a stored row, with columns to write, has
\* failed at commit.
C7_Witness ==
  \E c \in Clients :
    /\ Done(c, "update") /\ resp[c].status = 500
    /\ resp[c].detail = "database error"
    /\ \E r \in store : r.id = req[c].profile_id /\ r # Row(r.id, req[c].profile)

\* C8: a request in flight holds exactly one session, opened once; a
\* request that has returned (with any status) opened one session and holds
\* none; with no request in flight no session is open.
C8_OneSessionPerRequest ==
  \A c \in Clients :
    /\ pc[c] = "idle" => session[c] = 0 /\ opens[c] = 0
    /\ pc[c] = "done" => session[c] = 0 /\ opens[c] = 1
    /\ pc[c] \notin {"idle", "done"} => session[c] = 1 /\ opens[c] = 1

\* C8 witness: a request has ended on the 404 path while another, which
\* holds its session, is in flight.
C8_Witness ==
  \E c, d \in Clients :
    /\ pc[c] = "done" /\ resp[c].status = 404
    /\ pc[d] = "update_commit" /\ session[d] = 1

OtherRows(tbl, id) == {r \in tbl : r.id # id}

\* C10: a committing update or delete leaves every row of another id as it
\* was, a committing create leaves every stored row as it was, and every
\* other step (queries, 404 answers, refreshes) leaves the store as it was.
C10_OnlyTheAddressedRow ==
  [][\A c \in Clients : Stepped(c) =>
       IF pc[c] = "idle" /\ req'[c].op = "create" THEN store \subseteq store'
       ELSE IF pc[c] = "update_commit"
         THEN /\ OtherRows(store', req[c].profile_id)
                   = OtherRows(store, req[c].profile_id)
              /\ Ids(store') = Ids(store)
       ELSE IF pc[c] = "delete_commit"
         THEN /\ OtherRows(store', req[c].profile_id)
                   = OtherRows(store, req[c].profile_id)
              /\ store' \subseteq store
       ELSE store' = store]_vars

\* C10 witness: an update has committed its shape to one row while a row
\* of another id, with other values, is stored.
C10_Witness ==
  \E c \in Clients :
    /\ pc[c] = "update_refresh"
    /\ Row(req[c].profile_id, req[c].profile) \in store
    /\ \E r \in store, f \in Fields :
         r.id # req[c].profile_id /\ r[f] # req[c].profile[f]

====
